---------------------------- MODULE Spec2Model ----------------------------
(***************************************************************************)
(* Model of lava.proc.monitor.process.Monitor: the probe registry kept in  *)
(* proc_params, the readout index target_names, the dynamically created    *)
(* ports and data-storing Vars, and the result store filled by get_data(). *)
(***************************************************************************)
EXTENDS Integers, Sequences, FiniteSets, TLC

(***************************************************************************)
(* Bounds of the model.                                                    *)
(***************************************************************************)
\* number of probe() calls made on one Monitor
MaxProbes == 3
\* number of execution steps of the engine
MaxSteps == 2
\* number of probe() calls in the construction-only specification SpecBuild
MaxBuildProbes == 4
\* number of probe() calls in the specification SpecWide
MaxWideProbes == 3

(***************************************************************************)
(* Targets handed to probe(): Vars, OutPorts and one InPort of two         *)
(* processes P and Q.  shape is the tuple target.shape.                    *)
(***************************************************************************)
Targets ==
  { [proc |-> "P", name |-> "a", kind |-> "Var",     shape |-> <<1>>],
    [proc |-> "P", name |-> "b", kind |-> "Var",     shape |-> <<2>>],
    [proc |-> "P", name |-> "q", kind |-> "OutPort", shape |-> <<1>>],
    [proc |-> "Q", name |-> "a", kind |-> "OutPort", shape |-> <<2>>],
    [proc |-> "P", name |-> "i", kind |-> "InPort",  shape |-> <<1>>] }

\* the values of num_steps passed to probe()
NumSteps == {1, 2}

\* the value a target holds during execution step s (never 0, different for
\* different targets and steps)
TargetValue(t, s) ==
  LET kind == CASE t.kind = "Var" -> 1000
                [] t.kind = "OutPort" -> 2000
                [] OTHER -> 3000
      proc == IF t.proc = "P" THEN 100 ELSE 200
      name == CASE t.name = "a" -> 10
                [] t.name = "b" -> 20
                [] t.name = "q" -> 30
                [] OTHER -> 40
  IN kind + proc + name + s

(***************************************************************************)
(* Values: an array is its shape and its elements in row-major order; the  *)
(* scalar 0 has the empty shape.                                           *)
(***************************************************************************)
Size(shape) == IF Len(shape) = 0 THEN 1
               ELSE IF Len(shape) = 1 THEN shape[1]
               ELSE shape[1] * shape[2]

Full(shape, v) == [shape |-> shape, flat |-> [k \in 1..Size(shape) |-> v]]

Scalar0 == Full(<< >>, 0)

\* "prefix_" + str(n)
Name(prefix, n) == <<prefix, n>>

\* RefPort(shape=...), InPort(shape=...)
Port(type, shape) == [type |-> type, shape |-> shape, value |-> Scalar0]

\* Var(shape=..., init=...): the init value broadcast to the shape
Var(shape, init) == [type |-> "Var", shape |-> shape, value |-> Full(shape, init)]

\* f with key k bound to v (dict item assignment)
Put(f, k, v) == [x \in (DOMAIN f) \cup {k} |-> IF x = k THEN v ELSE f[x]]

EmptyDict == [x \in {} |-> 0]

VARIABLES
  RefPorts,      \* proc_params["RefPorts"]
  VarsData1,     \* proc_params["VarsData1"]
  InPorts,       \* proc_params["InPorts"]
  VarsData2,     \* proc_params["VarsData2"]
  n_ref_ports,   \* proc_params["n_ref_ports"]
  n_in_ports,    \* proc_params["n_in_ports"]
  target_names,  \* buffer name -> <<process name, entity name>>
  data,          \* process name -> entity name -> value
  attrs,         \* the Monitor's dynamically set attributes, by name
  conn,          \* tap name -> target it was connected to
  step,          \* execution steps the engine has run
  calls,         \* the probe() calls made so far, with their outcome
  status,        \* outcome of the last get_data(): "none", "ok" or the error
  reads          \* get_data() calls in a row since the last probe() or
                 \* engine step, counted up to 2

registry == <<RefPorts, VarsData1, InPorts, VarsData2, n_ref_ports, n_in_ports>>
vars == <<RefPorts, VarsData1, InPorts, VarsData2, n_ref_ports, n_in_ports,
          target_names, data, attrs, conn, step, calls, status, reads>>

(***************************************************************************)
(* __init__ followed by post_init(): empty registry, and the prototypical  *)
(* ref_port_0, var_read_0, in_port_0, out_read_0 of shape (1,).            *)
(***************************************************************************)
post_init(a) ==
  LET a1 == Put(a,  Name("ref_port", 0), Port("RefPort", <<1>>))
      a2 == Put(a1, Name("var_read", 0), Var(<<1>>, 0))
      a3 == Put(a2, Name("in_port", 0),  Port("InPort", <<1>>))
      a4 == Put(a3, Name("out_read", 0), Var(<<1>>, 0))
  IN a4

Init ==
  /\ data = EmptyDict
  /\ RefPorts = << >>
  /\ VarsData1 = << >>
  /\ InPorts = << >>
  /\ VarsData2 = << >>
  /\ n_ref_ports = 0
  /\ n_in_ports = 0
  /\ target_names = EmptyDict
  /\ attrs = post_init(EmptyDict)
  /\ conn = EmptyDict
  /\ step = 0
  /\ calls = << >>
  /\ status = "none"
  /\ reads = 0

(***************************************************************************)
(* probe(target, num_steps).  connect_ok is the outcome of the engine's    *)
(* connect_var / connect_from on the new tap.                              *)
(***************************************************************************)
\* the two dimensions exchanged
BufferShapeTransposed(t, num_steps) == <<num_steps, t.shape[1]>>

\* the shape of the data-storing Var: (target.shape[0], num_steps)
BufferShape(t, num_steps) == <<t.shape[1], num_steps>>

\* the name of the prototypical port used on every call
new_ref_port_name_fixed(nr, ni) == Name("ref_port", 0)

\* the names made from the two counters at the start of a call
new_ref_port_name(nr, ni) == Name("ref_port", nr)
\* one counter shared by the two kinds
new_var_read_name_shared(nr, ni) == Name("var_read", nr + ni)
new_var_read_name(nr, ni) == Name("var_read", nr)
new_in_port_name(nr, ni) == Name("in_port", ni)
\* the buffer of an OutPort probe numbered by the Var counter
new_out_read_name_by_ref(nr, ni) == Name("out_read", nr)
new_out_read_name(nr, ni) == Name("out_read", ni)

\* the four attributes set on every call, whatever the kind of the target
NewAttrs(a, t, num_steps, nr, ni) ==
  LET a1 == Put(a,  new_ref_port_name(nr, ni), Port("RefPort", t.shape))
      a2 == Put(a1, new_var_read_name(nr, ni), Var(BufferShape(t, num_steps), 0))
      a3 == Put(a2, new_in_port_name(nr, ni),  Port("InPort", t.shape))
      a4 == Put(a3, new_out_read_name(nr, ni), Var(BufferShape(t, num_steps), 0))
  IN a4

\* the result-store keys of the probed target
Placeholder(d, t) == Put(d, t.proc, Put(EmptyDict, t.name, Scalar0))

\* the log entry of one call
Call(t, num_steps, outcome, tap, buf) ==
  [target |-> t, num_steps |-> num_steps, outcome |-> outcome,
   tap |-> tap, buf |-> buf]

probe(t, num_steps, connect_ok) ==
  LET ref_port_name == new_ref_port_name(n_ref_ports, n_in_ports)
      var_read_name == new_var_read_name(n_ref_ports, n_in_ports)
      in_port_name  == new_in_port_name(n_ref_ports, n_in_ports)
      out_read_name == new_out_read_name(n_ref_ports, n_in_ports)
  IN
  /\ attrs' = NewAttrs(attrs, t, num_steps, n_ref_ports, n_in_ports)
  /\ RefPorts'  = Append(RefPorts, ref_port_name)
  /\ VarsData1' = Append(VarsData1, var_read_name)
  /\ InPorts'   = Append(InPorts, in_port_name)
  /\ VarsData2' = Append(VarsData2, out_read_name)
  /\ reads' = 0
  /\ UNCHANGED <<step, status>>
  /\ IF t.kind = "Var" THEN
       /\ n_ref_ports' = n_ref_ports + 1
       /\ UNCHANGED n_in_ports
       /\ IF connect_ok THEN
            /\ conn' = Put(conn, ref_port_name, t)
            /\ target_names' = Put(target_names, var_read_name,
                                   <<t.proc, t.name>>)
            /\ data' = Placeholder(data, t)
            /\ calls' = Append(calls, Call(t, num_steps, "ok",
                                 ref_port_name, var_read_name))
          ELSE
            /\ UNCHANGED <<conn, target_names, data>>
            /\ calls' = Append(calls, Call(t, num_steps, "ConnectError",
                                 ref_port_name, var_read_name))
     ELSE IF t.kind = "OutPort" THEN
       /\ n_in_ports' = n_in_ports + 1
       /\ UNCHANGED n_ref_ports
       /\ IF connect_ok THEN
            /\ conn' = Put(conn, in_port_name, t)
            /\ target_names' = Put(target_names, out_read_name,
                                   <<t.proc, t.name>>)
            /\ data' = Placeholder(data, t)
            /\ calls' = Append(calls, Call(t, num_steps, "ok",
                                 in_port_name, out_read_name))
          ELSE
            /\ UNCHANGED <<conn, target_names, data>>
            /\ calls' = Append(calls, Call(t, num_steps, "ConnectError",
                                 in_port_name, out_read_name))
     ELSE
       /\ UNCHANGED <<n_ref_ports, n_in_ports, conn, target_names, data>>
       /\ calls' = Append(calls, Call(t, num_steps, "TypeError",
                            Name("none", 0), Name("none", 0)))

(***************************************************************************)
(* get_data(): the OutPort buffers VarsData2[0..n_in_ports-1], then the    *)
(* Var buffers VarsData1[0..n_ref_ports-1].  A failing lookup ends the     *)
(* call with what was stored so far.                                       *)
(***************************************************************************)
\* the value appended to the one already stored
StoreAccumulate(d, tn, v) ==
  LET old == IF tn[2] \in DOMAIN d[tn[1]] THEN d[tn[1]][tn[2]].flat ELSE << >>
  IN [d EXCEPT ![tn[1]] =
        Put(d[tn[1]], tn[2], [shape |-> v.shape, flat |-> old \o v.flat])]

\* a value already read out is kept instead of being refreshed
StoreOnce(d, tn, v) ==
  IF tn[2] \in DOMAIN d[tn[1]] /\ d[tn[1]][tn[2]] # Scalar0 THEN d
  ELSE [d EXCEPT ![tn[1]] = Put(d[tn[1]], tn[2], v)]

\* data[target_name[0]][target_name[1]] = value
Store(d, tn, v) == [d EXCEPT ![tn[1]] = Put(d[tn[1]], tn[2], v)]

\* one loop iteration for the buffer called data_var_name
Visit(d, data_var_name) ==
  IF data_var_name \notin DOMAIN attrs
    THEN [data |-> d, err |-> "AttributeError"]
  ELSE IF data_var_name \notin DOMAIN target_names
    THEN [data |-> d, err |-> "KeyError"]
  ELSE LET target_name == target_names[data_var_name]
       IN IF target_name[1] \notin DOMAIN d
            THEN [data |-> d, err |-> "KeyError"]
            ELSE [data |-> Store(d, target_name, attrs[data_var_name].value),
                  err |-> "ok"]

\* for i in range(n): visit list[i]
RECURSIVE Loop(_, _, _, _)
Loop(acc, list, i, n) ==
  IF acc.err # "ok" \/ i >= n THEN acc
  ELSE IF i + 1 > Len(list) THEN [data |-> acc.data, err |-> "IndexError"]
  ELSE Loop(Visit(acc.data, list[i + 1]), list, i + 1, n)

\* the two loops in the other order
ReadoutVarsFirst(d) ==
  LET refs == Loop([data |-> d, err |-> "ok"], VarsData1, 0, n_ref_ports)
  IN Loop(refs, VarsData2, 0, n_in_ports)

Readout(d) ==
  LET outs == Loop([data |-> d, err |-> "ok"], VarsData2, 0, n_in_ports)
  IN Loop(outs, VarsData1, 0, n_ref_ports)

\* a readout that resets the buffers it has read
get_data_consuming ==
  /\ data' = Readout(data).data
  /\ status' = Readout(data).err
  /\ reads' = IF reads < 2 THEN reads + 1 ELSE 2
  /\ attrs' = [n \in DOMAIN attrs |->
                 IF attrs[n].type = "Var" THEN Var(attrs[n].shape, 0)
                 ELSE attrs[n]]
  /\ UNCHANGED <<registry, target_names, conn, step, calls>>

get_data ==
  /\ data' = Readout(data).data
  /\ status' = Readout(data).err
  /\ reads' = IF reads < 2 THEN reads + 1 ELSE 2
  /\ UNCHANGED <<registry, target_names, attrs, conn, step, calls>>

(***************************************************************************)
(* One execution step of the engine: every connected tap delivers the      *)
(* value of its target into column step of the buffer paired with it.      *)
(***************************************************************************)
PairedBuffer(tap) == IF tap[1] = "ref_port" THEN Name("var_read", tap[2])
                     ELSE Name("out_read", tap[2])

\* buffer with column c (1-based) set to v in every row
WriteColumn(buf, c, v) ==
  LET rows == buf.shape[1]
      cols == buf.shape[2]
  IN IF c > cols THEN buf
     ELSE [buf EXCEPT !.value.flat =
             [k \in 1..(rows * cols) |->
                IF ((k - 1) % cols) + 1 = c THEN v ELSE buf.value.flat[k]]]

EngineStep ==
  /\ step < MaxSteps
  /\ step' = step + 1
  /\ attrs' = [n \in DOMAIN attrs |->
                 IF \E tap \in DOMAIN conn : PairedBuffer(tap) = n
                   THEN LET tap == CHOOSE x \in DOMAIN conn : PairedBuffer(x) = n
                        IN WriteColumn(attrs[n], step + 1,
                                       TargetValue(conn[tap], step + 1))
                   ELSE attrs[n]]
  /\ reads' = 0
  /\ UNCHANGED <<registry, target_names, data, conn, calls, status>>

(***************************************************************************)
(* Probes are attached while the graph is built, before the engine runs.   *)
(***************************************************************************)
Probe ==
  \E t \in Targets, num_steps \in NumSteps, connect_ok \in BOOLEAN :
    /\ Len(calls) < MaxProbes
    /\ step = 0
    /\ probe(t, num_steps, connect_ok)

Next ==
  \/ Probe
  \/ get_data
  \/ EngineStep

Spec == Init /\ [][Next]_vars

(***************************************************************************)
(* The construction phase alone, with probe() calls that all succeed.      *)
(***************************************************************************)
ProbeableTargets == {t \in Targets : t.kind \in {"Var", "OutPort"}}

ProbeBuild ==
  \E t \in ProbeableTargets, num_steps \in NumSteps :
    /\ Len(calls) < MaxBuildProbes
    /\ probe(t, num_steps, TRUE)

NextBuild ==
  \/ ProbeBuild
  \/ get_data

SpecBuild == Init /\ [][NextBuild]_vars

(***************************************************************************)
(* Successful probe() calls on a wider set of targets, followed by engine  *)
(* steps.  Process names are given by the user and need not be unique: the *)
(* Var a and the OutPort a belong to two processes both called P.          *)
(***************************************************************************)
WideTargets ==
  { [proc |-> "P", name |-> "a", kind |-> "Var",     shape |-> <<1>>],
    [proc |-> "P", name |-> "b", kind |-> "Var",     shape |-> <<2>>],
    [proc |-> "Q", name |-> "b", kind |-> "Var",     shape |-> <<1>>],
    [proc |-> "P", name |-> "a", kind |-> "OutPort", shape |-> <<2>>],
    [proc |-> "P", name |-> "q", kind |-> "OutPort", shape |-> <<1>>],
    [proc |-> "Q", name |-> "a", kind |-> "OutPort", shape |-> <<2>>] }

ProbeWide ==
  \E t \in WideTargets, num_steps \in NumSteps :
    /\ Len(calls) < MaxWideProbes
    /\ step = 0
    /\ probe(t, num_steps, TRUE)

NextWide ==
  \/ ProbeWide
  \/ get_data
  \/ EngineStep

SpecWide == Init /\ [][NextWide]_vars

(***************************************************************************)
(* Vocabulary of the properties.                                           *)
(***************************************************************************)
\* every probe() call so far returned normally
AllOk == \A i \in DOMAIN calls : calls[i].outcome = "ok"

\* no (owner process, entity) pair was probed twice
DistinctTargets ==
  \A i, j \in DOMAIN calls :
    i # j => <<calls[i].target.proc, calls[i].target.name>>
               # <<calls[j].target.proc, calls[j].target.name>>

\* data[t.proc][t.name] exists
HasEntry(d, t) == t.proc \in DOMAIN d /\ t.name \in DOMAIN d[t.proc]

\* the number of calls among the first i whose target is of the given kind
KindCount(kind, i) == Cardinality({j \in 1..i : calls[j].target.kind = kind})

\* the step just taken is a probe() call that ended with the given outcome
ProbeEnded(outcome) ==
  /\ Len(calls') = Len(calls) + 1
  /\ calls'[Len(calls')].outcome = outcome

(***************************************************************************)
(* C1  Readout completeness: after successful probe() calls on distinct    *)
(* Var and OutPort targets and at least one engine step, the result of     *)
(* get_data() holds, for every probed (owner, entity), the full content of *)
(* the buffer attached to that target.                                     *)
(***************************************************************************)
C1_ReadoutComplete ==
  (AllOk /\ DistinctTargets /\ step >= 1 /\ reads >= 1) =>
    /\ status = "ok"
    /\ \A i \in DOMAIN calls :
         /\ HasEntry(data, calls[i].target)
         /\ data[calls[i].target.proc][calls[i].target.name]
              = attrs[calls[i].buf].value

(***************************************************************************)
(* C2  get_data() never fails: in every state, also after probe() calls    *)
(* that ended in an error, a get_data() call made now completes without    *)
(* raising.                                                                *)
(***************************************************************************)
C2_GetDataNeverFails == Readout(data).err = "ok"

(***************************************************************************)
(* C3  Rejection of input channels: a probe() call that raises TypeError   *)
(* leaves the counters, the four name lists, target_names and data as      *)
(* they were.                                                              *)
(***************************************************************************)
C3_RejectionLeavesRegistry ==
  [][ProbeEnded("TypeError") => UNCHANGED <<registry, target_names, data>>]_vars

(***************************************************************************)
(* C4  Attachment is all-or-nothing: a probe() call whose connect step     *)
(* raises advances no counter, leaves no name in the lists and creates no  *)
(* target_names or data entry.                                             *)
(***************************************************************************)
C4_ConnectFailureRolledBack ==
  [][ProbeEnded("ConnectError") =>
       UNCHANGED <<registry, target_names, data>>]_vars

(***************************************************************************)
(* C5  Counter/list alignment: after successful probe() calls on Vars and  *)
(* OutPorts the Var lists are as long as n_ref_ports and the OutPort lists *)
(* as long as n_in_ports.                                                  *)
(***************************************************************************)
C5_CounterListAlignment ==
  AllOk =>
    /\ Len(RefPorts) = n_ref_ports
    /\ Len(VarsData1) = n_ref_ports
    /\ Len(InPorts) = n_in_ports
    /\ Len(VarsData2) = n_in_ports

(***************************************************************************)
(* C6  Naming: when all probe() calls succeeded, the k-th Var probe is     *)
(* bound to ref_port_{k-1} and var_read_{k-1} and the k-th OutPort probe   *)
(* to in_port_{k-1} and out_read_{k-1}, however the kinds interleave, and  *)
(* the names of different probes differ.                                   *)
(***************************************************************************)
C6_Naming ==
  AllOk =>
    /\ \A i \in DOMAIN calls :
         LET c == calls[i]
             k == KindCount(c.target.kind, i)
         IN /\ c.target.kind = "Var" =>
                 /\ c.tap = Name("ref_port", k - 1)
                 /\ c.buf = Name("var_read", k - 1)
            /\ c.target.kind = "OutPort" =>
                 /\ c.tap = Name("in_port", k - 1)
                 /\ c.buf = Name("out_read", k - 1)
            /\ c.tap \in DOMAIN conn /\ conn[c.tap] = c.target
            /\ c.buf \in DOMAIN target_names
            /\ target_names[c.buf] = <<c.target.proc, c.target.name>>
            /\ {c.tap, c.buf} \subseteq DOMAIN attrs
    /\ \A i, j \in DOMAIN calls :
         i # j => /\ calls[i].tap # calls[j].tap
                  /\ calls[i].buf # calls[j].buf

\* a Var probe made after an OutPort probe and an earlier Var probe
C6_Witness ==
  /\ AllOk
  /\ Len(calls) = 3
  /\ calls[1].target.kind = "Var"
  /\ calls[2].target.kind = "OutPort"
  /\ calls[3].target.kind = "Var"
  /\ calls[3].buf = Name("var_read", 1)

(***************************************************************************)
(* C7  Placeholder presence: after successful probe() calls and before any *)
(* get_data(), every probed (owner, entity) is a key of data.              *)
(***************************************************************************)
C7_PlaceholderPresent ==
  (AllOk /\ status = "none") =>
    \A i \in DOMAIN calls : HasEntry(data, calls[i].target)

(***************************************************************************)
(* C8  Idempotent readout: a get_data() call that directly follows another *)
(* get_data() call returns what the first one returned.                    *)
(***************************************************************************)
C8_IdempotentReadout ==
  [][(reads >= 1 /\ reads' >= 1) => (data' = data /\ status' = status)]_vars

\* two get_data() calls in a row after the engine wrote samples
C8_Witness ==
  /\ reads = 2
  /\ status = "ok"
  /\ step >= 1
  /\ \E i \in DOMAIN calls :
       /\ calls[i].outcome = "ok"
       /\ HasEntry(data, calls[i].target)
       /\ data[calls[i].target.proc][calls[i].target.name]
            # Full(data[calls[i].target.proc][calls[i].target.name].shape, 0)

(***************************************************************************)
(* C9  Pre-execution readout: get_data() after successful probe() calls on *)
(* distinct targets and before any engine step does not raise and returns, *)
(* for every probed entity, the scalar 0 or an all-zero buffer of that     *)
(* probe's shape; with no probe it returns the empty mapping.              *)
(***************************************************************************)
C9_PreExecutionReadout ==
  (AllOk /\ DistinctTargets /\ step = 0 /\ reads >= 1) =>
    /\ status = "ok"
    /\ calls = << >> => data = EmptyDict
    /\ \A i \in DOMAIN calls :
         /\ HasEntry(data, calls[i].target)
         /\ data[calls[i].target.proc][calls[i].target.name]
              \in {Scalar0,
                   Full(BufferShape(calls[i].target, calls[i].num_steps), 0)}

(***************************************************************************)
(* C10  Shape propagation: the buffer bound by a successful                *)
(* probe(target, num_steps) has shape (target.shape[0], num_steps) and is  *)
(* all zero until the engine runs, and the tap has shape target.shape.     *)
(***************************************************************************)
C10_ShapePropagation ==
  \A i \in DOMAIN calls :
    calls[i].outcome = "ok" =>
      LET c == calls[i]
          shape == <<c.target.shape[1], c.num_steps>>
      IN /\ attrs[c.buf].type = "Var"
         /\ attrs[c.buf].shape = shape
         /\ attrs[c.buf].value.shape = shape
         /\ Len(attrs[c.buf].value.flat) = c.target.shape[1] * c.num_steps
         /\ step = 0 =>
              \A k \in DOMAIN attrs[c.buf].value.flat :
                attrs[c.buf].value.flat[k] = 0
         /\ attrs[c.tap].shape = c.target.shape
         /\ attrs[c.tap].type =
              (IF c.target.kind = "Var" THEN "RefPort" ELSE "InPort")

\* a buffer of shape (2, 1) followed by further probes
C10_Witness ==
  /\ Len(calls) = 3
  /\ calls[1].outcome = "ok"
  /\ calls[1].target.shape = <<2>>
  /\ calls[1].num_steps = 1
  /\ attrs[calls[1].buf].shape = <<2, 1>>


(***************************************************************************)
(* The buffers one get_data() call visits, in the order of its two loops.  *)
(***************************************************************************)
VisitSeq == SubSeq(VarsData2, 1, n_in_ports) \o SubSeq(VarsData1, 1, n_ref_ports)

\* the target whose successful probe() bound the buffer b
TargetOf(b) ==
  calls[CHOOSE i \in DOMAIN calls : calls[i].outcome = "ok" /\ calls[i].buf = b].target

\* the column (1-based) of the k-th element of a buffer with cols columns
ColumnOf(k, cols) == ((k - 1) % cols) + 1

\* the columns of the steps run so far hold the target's samples, the later
\* columns the zero fill
WrittenUpTo(b, n) ==
  \A k \in DOMAIN attrs[b].value.flat :
    attrs[b].value.flat[k] =
      (IF ColumnOf(k, attrs[b].shape[2]) <= n
         THEN TargetValue(TargetOf(b), ColumnOf(k, attrs[b].shape[2]))
         ELSE 0)

C12_IndexAlignment ==
  AllOk =>
    /\ \A i \in 0..(n_in_ports - 1) :
         /\ i + 1 <= Len(VarsData2) /\ VarsData2[i + 1] = Name("out_read", i)
         /\ i + 1 <= Len(InPorts) /\ InPorts[i + 1] = Name("in_port", i)
    /\ \A i \in 0..(n_ref_ports - 1) :
         /\ i + 1 <= Len(VarsData1) /\ VarsData1[i + 1] = Name("var_read", i)
         /\ i + 1 <= Len(RefPorts) /\ RefPorts[i + 1] = Name("ref_port", i)

(***************************************************************************)
(* C13  One readout-index entry per probe: in every reachable state        *)
(* target_names has n_ref_ports + n_in_ports entries, each of its keys     *)
(* names an existing data-storing Var, and var_read_j (j < n_ref_ports)    *)
(* and out_read_j (j < n_in_ports) are keys of it.                         *)
(***************************************************************************)
C13_OneIndexEntryPerProbe ==
  /\ Cardinality(DOMAIN target_names) = n_ref_ports + n_in_ports
  /\ \A b \in DOMAIN target_names :
       b \in DOMAIN attrs /\ attrs[b].type = "Var"
  /\ \A j \in 0..(n_ref_ports - 1) : Name("var_read", j) \in DOMAIN target_names
  /\ \A j \in 0..(n_in_ports - 1) : Name("out_read", j) \in DOMAIN target_names

(***************************************************************************)
(* C14  probe() creates the placeholder only if it is absent: a probe()    *)
(* call keeps every existing data[owner][entity] with its value.           *)
(***************************************************************************)
C14_ProbeKeepsEntries ==
  [][Len(calls') = Len(calls) + 1 =>
       \A p \in DOMAIN data : \A e \in DOMAIN data[p] :
         /\ p \in DOMAIN data'
         /\ e \in DOMAIN data'[p]
         /\ data'[p][e] = data[p][e]]_vars


(***************************************************************************)
(* C15  An attached probe is never mutated: no step, and in particular no  *)
(* later probe() call, successful or failed, replaces the tap or the       *)
(* buffer bound by an earlier successful probe() or changes the buffer's   *)
(* shape or the target it is bound to.                                     *)
(***************************************************************************)
C15_AttachedProbeFixed ==
  [][\A i \in DOMAIN calls :
       calls[i].outcome = "ok" =>
         LET c == calls[i]
         IN /\ i \in DOMAIN calls' /\ calls'[i] = c
            /\ c.tap \in DOMAIN attrs' /\ attrs'[c.tap] = attrs[c.tap]
            /\ c.buf \in DOMAIN attrs'
            /\ attrs'[c.buf].type = attrs[c.buf].type
            /\ attrs'[c.buf].shape = attrs[c.buf].shape
            /\ attrs'[c.buf].value.shape = attrs[c.buf].value.shape
            /\ Len(calls') = Len(calls) + 1 => attrs'[c.buf] = attrs[c.buf]
            /\ c.tap \in DOMAIN conn' /\ conn'[c.tap] = conn[c.tap]
            /\ conn'[c.tap] = c.target
            /\ c.buf \in DOMAIN target_names'
            /\ target_names'[c.buf] = <<c.target.proc, c.target.name>>]_vars

\* a probe followed by a failed call and by a successful one of the other
\* kind and another shape
C15_Witness ==
  /\ Len(calls) = 3
  /\ calls[1].outcome = "ok"
  /\ calls[1].target.kind = "Var"
  /\ calls[2].outcome # "ok"
  /\ calls[3].outcome = "ok"
  /\ calls[3].target.kind = "OutPort"
  /\ calls[3].target.shape # calls[1].target.shape
  /\ calls[3].num_steps # calls[1].num_steps
  /\ conn[calls[1].tap] = calls[1].target
  /\ attrs[calls[1].buf].shape = <<calls[1].target.shape[1], calls[1].num_steps>>

(***************************************************************************)
(* C16  get_data() is read-only on the registry and the buffers: it leaves *)
(* the counters, the four name lists, target_names and every attribute     *)
(* (so every buffer's content) unchanged; it changes only data.            *)
(***************************************************************************)
C16_GetDataReadOnly ==
  [][reads' >= 1 =>
       UNCHANGED <<registry, target_names, attrs, conn, step, calls>>]_vars

\* a first readout of buffers that hold samples
C16_Witness ==
  /\ reads = 1
  /\ status = "ok"
  /\ step >= 1
  /\ Len(calls) >= 2
  /\ \E i \in DOMAIN calls :
       /\ calls[i].outcome = "ok"
       /\ attrs[calls[i].buf].value # Full(attrs[calls[i].buf].shape, 0)
       /\ HasEntry(data, calls[i].target)
       /\ data[calls[i].target.proc][calls[i].target.name]
            = attrs[calls[i].buf].value


(***************************************************************************)
(* The places of the two loops of get_data(): <<1, i>> is VarsData2[i-1]   *)
(* of the first loop, <<2, i>> is VarsData1[i-1] of the second.            *)
(***************************************************************************)
Places == ({1} \X (1..n_in_ports)) \cup ({2} \X (1..n_ref_ports))

NameAt(pl) == IF pl[1] = 1 THEN VarsData2[pl[2]] ELSE VarsData1[pl[2]]

\* place a comes after place b: a Var buffer after an OutPort buffer, a
\* higher index after a lower one of the same kind
After(a, b) == a[1] > b[1] \/ (a[1] = b[1] /\ a[2] > b[2])

(***************************************************************************)
(* C17  Readout order: get_data() stores the OutPort buffers before the    *)
(* Var buffers, each kind by increasing index, so the value returned for   *)
(* an (owner, entity) key is the content of the last buffer, in that       *)
(* order, that resolves to the key.                                        *)
(***************************************************************************)
C17_ReadoutOrder ==
  (AllOk /\ reads >= 1) =>
    \A pl \in Places :
      (\A o \in Places :
         target_names[NameAt(o)] = target_names[NameAt(pl)] => ~After(o, pl))
      => LET key == target_names[NameAt(pl)]
         IN /\ key[1] \in DOMAIN data
            /\ key[2] \in DOMAIN data[key[1]]
            /\ data[key[1]][key[2]] = attrs[NameAt(pl)].value

\* an OutPort probed after a Var of the same (owner, entity): the Var's
\* buffer is the one returned
C17_Witness ==
  /\ reads >= 1
  /\ status = "ok"
  /\ step >= 1
  /\ Len(calls) = 2
  /\ calls[1].target.kind = "Var"
  /\ calls[2].target.kind = "OutPort"
  /\ calls[1].target.proc = calls[2].target.proc
  /\ calls[1].target.name = calls[2].target.name
  /\ attrs[calls[1].buf].value # attrs[calls[2].buf].value
  /\ data[calls[1].target.proc][calls[1].target.name] = attrs[calls[1].buf].value

(***************************************************************************)
(* C18  Single-kind sequences are drained completely: after successful     *)
(* probe() calls on distinct targets that are all Vars or all OutPorts,    *)
(* get_data() visits every attached buffer exactly once and returns for    *)
(* every probed entity the content of its own buffer.                      *)
(***************************************************************************)
SingleKind ==
  \A i, j \in DOMAIN calls : calls[i].target.kind = calls[j].target.kind

C18_SingleKindDrained ==
  (AllOk /\ DistinctTargets /\ SingleKind /\ reads >= 1) =>
    /\ status = "ok"
    /\ Len(VisitSeq) = Len(calls)
    /\ \A i \in DOMAIN calls :
         /\ Cardinality({p \in DOMAIN VisitSeq : VisitSeq[p] = calls[i].buf}) = 1
         /\ HasEntry(data, calls[i].target)
         /\ data[calls[i].target.proc][calls[i].target.name]
              = attrs[calls[i].buf].value

\* three Vars, two of them of one process, read out after an engine step
C18_Witness ==
  /\ AllOk /\ DistinctTargets /\ SingleKind
  /\ Len(calls) = 3
  /\ calls[1].target.kind = "Var"
  /\ calls[1].target.proc = calls[2].target.proc
  /\ reads >= 1
  /\ status = "ok"
  /\ step >= 1
  /\ \A i \in DOMAIN calls :
       /\ HasEntry(data, calls[i].target)
       /\ data[calls[i].target.proc][calls[i].target.name].flat[1]
            = TargetValue(calls[i].target, 1)

=============================================================================
